---- MODULE Spec2Model ----
(***************************************************************************)
(* Model of the Booking.com MCP server (src/src/server.ts).                *)
(*                                                                         *)
(* Several layers are modelled, each with its own specification:           *)
(*   Spec         one tools/call request handler run: argument parsing,    *)
(*                searchAccommodationsAPI with its two awaited upstream    *)
(*                requests, the mock fallback and the tool result;         *)
(*   SessionSpec  the SSE session bookkeeping of handleSseRequest;         *)
(*   PostSpec     the same with the POSTs routed by handlePostMessage;     *)
(*   HelperSpec   the helpers and the resource handlers of server.ts,      *)
(*                each applied on its own to inputs of a bounded set;      *)
(*   WorkerSpec   the fetch handler of the Cloudflare worker;              *)
(*   DirectSpec   the session layer with the direct JSON-RPC mode of the   *)
(*                server that quick-start.sh writes;                       *)
(*   WidgetSpec   the browser widget rendering the props it is given;      *)
(*   RouterSpec   the session layer driven through the HTTP router;        *)
(*   AssetSpec    the static asset branch of the server that               *)
(*                quick-start.sh writes.                                   *)
(*                                                                         *)
(* Conventions.  An optional JSON property is a sequence of length <= 1:   *)
(* <<>> is "undefined", <<v>> is the value v.  Guest ratings are scaled by *)
(* ten (8.9 is 89), so that the comparisons of the code stay on integers.  *)
(* Strings are TLA+ strings; toLowerCase and includes are computed         *)
(* character by character.                                                 *)
(***************************************************************************)
EXTENDS Integers, Sequences, FiniteSets, TLC

\* ------------------------------------------------------------------ bounds
\* Longest hotel list the upstream search answers with.
MaxHotels == 2
\* Number of SSE session ids the session layer may hand out.
MaxSessions == 3
\* Most requests the server may have in process at a time in the model.
MaxInFlight == 2
\* Longest accommodation list the host hands to the widget.
MaxCards == 3

\* ------------------------------------------------------ optional properties
None == <<>>
Some(v) == <<v>>
Has(o) == o # <<>>
Val(o) == o[1]
\* JavaScript `x || d` for an optional number (undefined and 0 are falsy).
OrDefault(o, d) == IF Has(o) /\ Val(o) # 0 THEN Val(o) ELSE d
\* Mutant of Truthy: a supplied 0 counts as supplied.
TruthyCountsZero(o) == Has(o)

\* JavaScript truthiness of an optional number.
Truthy(o) == Has(o) /\ Val(o) # 0

\* ------------------------------------------------------------------ strings
LowerChar(c) ==
  CASE c = "A" -> "a" [] c = "B" -> "b" [] c = "C" -> "c" [] c = "D" -> "d"
    [] c = "E" -> "e" [] c = "F" -> "f" [] c = "G" -> "g" [] c = "H" -> "h"
    [] c = "I" -> "i" [] c = "J" -> "j" [] c = "K" -> "k" [] c = "L" -> "l"
    [] c = "M" -> "m" [] c = "N" -> "n" [] c = "O" -> "o" [] c = "P" -> "p"
    [] c = "Q" -> "q" [] c = "R" -> "r" [] c = "S" -> "s" [] c = "T" -> "t"
    [] c = "U" -> "u" [] c = "V" -> "v" [] c = "W" -> "w" [] c = "X" -> "x"
    [] c = "Y" -> "y" [] c = "Z" -> "z" [] OTHER -> c

RECURSIVE ToLowerCase(_)
ToLowerCase(s) ==
  IF Len(s) = 0 THEN ""
  ELSE LowerChar(SubSeq(s, 1, 1)) \o ToLowerCase(SubSeq(s, 2, Len(s)))

\* String.prototype.includes: sub occurs in s as a contiguous substring.
Includes(s, sub) ==
  \/ Len(sub) = 0
  \/ \E i \in 1..(Len(s) - Len(sub) + 1) : SubSeq(s, i, i + Len(sub) - 1) = sub

\* ------------------------------------------------------- program constants
ToolName == "accomodations.search"

AccommodationTypes ==
  {"hotel", "apartment", "hostel", "guest-house", "vacation-home", "resort",
   "villa", "chalet", "bed-and-breakfast", "lodge"}

DefaultNights == 3
DefaultAdults == 2
DefaultChildren == 0
DefaultRooms == 1
\* rating || 8.0 of the reshaping, scaled by ten
DefaultRating == 80
SliceLimit == 10

\* --------------------------------------------------------------- tool input
\* The argument objects a caller may send.  Invalid values (0 nights, -1
\* children, rating 11.0, an unknown type, no destination) are part of it.
ToolArguments ==
  [destination : {None, Some("Paris")},
   nights : {None, Some(0), Some(2)},
   adults : {None, Some(0), Some(3)},
   children : {None, Some(-1), Some(0), Some(2)},
   rooms : {None, Some(0), Some(2)},
   accommodationType : {None, Some("hotel"), Some("resort"), Some("castle")},
   minPrice : {None, Some(0), Some(150)},
   maxPrice : {None, Some(0), Some(200)},
   rating : {None, Some(0), Some(90), Some(110)},
   facilities : {None, Some(<<>>), Some(<<"pool">>), Some(<<"WiFi", "parking">>)}]

ToolNames == {ToolName, "flights.search"}

\* The calls a client may make.  The handler never reads the arguments of a
\* call that names an unknown tool, so fewer of them are tried.
ToolCalls ==
  {<<ToolName, args>> : args \in ToolArguments}
    \cup {<<name, args>> : name \in ToolNames \ {ToolName},
                           args \in {a \in ToolArguments :
                                       /\ a.adults = None /\ a.children = None
                                       /\ a.rooms = None /\ a.minPrice = None
                                       /\ a.maxPrice = None /\ a.rating = None}}

\* Mutant of ParseOk: the .min() / .max() / enum constraints are left out.
ParseOkWithoutConstraints(args) == Has(args.destination)

\* accommodationSearchInputParser.parse succeeds
ParseOk(args) ==
  /\ Has(args.destination)
  /\ Has(args.nights) => Val(args.nights) >= 1
  /\ Has(args.adults) => Val(args.adults) >= 1
  /\ Has(args.children) => Val(args.children) >= 0
  /\ Has(args.rooms) => Val(args.rooms) >= 1
  /\ Has(args.accommodationType) => Val(args.accommodationType) \in AccommodationTypes
  /\ Has(args.rating) => (Val(args.rating) >= 0 /\ Val(args.rating) <= 100)

\* ---------------------------------------------------------- upstream data
\* Hotel objects the upstream hotel search may answer with.  h2 lacks price,
\* score and facilities, so the reshaping falls back to its `||` defaults.
UpstreamCatalogue ==
  {[hotel_id |-> "h1", accommodationType |-> Some("Hotel"), price |-> Some(100),
    reviewScore |-> Some(85), facilities |-> Some(<<"Swimming Pool", "Free WiFi">>),
    hotel_facilities |-> None],
   [hotel_id |-> "h2", accommodationType |-> None, price |-> None,
    reviewScore |-> None, facilities |-> None, hotel_facilities |-> None],
   [hotel_id |-> "h3", accommodationType |-> Some("RESORT"), price |-> Some(250),
    reviewScore |-> Some(96), facilities |-> None,
    hotel_facilities |-> Some(<<"pool", "Parking garage">>)]}

RECURSIVE SeqsUpTo(_, _)
SeqsUpTo(S, n) ==
  IF n = 0 THEN {<<>>}
  ELSE LET shorter == SeqsUpTo(S, n - 1)
       IN shorter \cup {Append(q, x) : q \in {r \in shorter : Len(r) = n - 1}, x \in S}

HotelLists == SeqsUpTo(UpstreamCatalogue, MaxHotels)

\* How an upstream request may end: the fetch rejects, the answer is not 2xx,
\* reading the body (or, for the hotels, reshaping it) throws, the lookup
\* finds no destination, or the request succeeds.
DestOutcomes == {"fetchThrows", "notOk", "jsonThrows", "empty", "found"}
HotelsOutcomes == {"fetchThrows", "notOk", "jsonThrows", "ok"}

\* ------------------------------------------------------------------ helpers
TypeMap(t) ==
  CASE t = "hotel" -> Some("hotel")
    [] t = "apartment" -> Some("apartment")
    [] t = "hostel" -> Some("hostel")
    [] t = "guest house" -> Some("guest-house")
    [] t = "vacation home" -> Some("vacation-home")
    [] t = "resort" -> Some("resort")
    [] t = "villa" -> Some("villa")
    [] t = "chalet" -> Some("chalet")
    [] t = "bed and breakfast" -> Some("bed-and-breakfast")
    [] t = "lodge" -> Some("lodge")
    \* typeMap is an object literal: a lookup also finds what it inherits from
    \* Object.prototype.  Of those names only two are all lower case.
    [] t = "constructor" -> Some("function Object")
    [] t = "__proto__" -> Some("Object.prototype")
    [] OTHER -> None

determineAccommodationType(type) ==
  LET hit == TypeMap(ToLowerCase(type))
  IN IF Has(hit) THEN Val(hit) ELSE "hotel"

getReviewScore(score) ==
  IF score >= 95 THEN "Exceptional"
  ELSE IF score >= 90 THEN "Superb"
  ELSE IF score >= 85 THEN "Wonderful"
  ELSE IF score >= 80 THEN "Very Good"
  ELSE IF score >= 75 THEN "Good"
  ELSE "Pleasant"

extractFacilities(facilities) ==
  IF Has(facilities) THEN Val(facilities) ELSE <<"wifi", "parking">>

Slice(s, n) == IF Len(s) <= n THEN s ELSE SubSeq(s, 1, n)

\* One element of the .map() of searchAccommodationsAPI.  Prices are whole
\* numbers here, so Math.round leaves them as they are.
ReshapeHotel(hotel, params) ==
  [id |-> hotel.hotel_id,
   type |-> determineAccommodationType(
              IF Has(hotel.accommodationType) THEN Val(hotel.accommodationType)
              ELSE "hotel"),
   pricePerNight |-> OrDefault(hotel.price, 0),
   totalPrice |-> OrDefault(hotel.price, 0) * OrDefault(params.nights, DefaultNights),
   rating |-> OrDefault(hotel.reviewScore, DefaultRating),
   reviewScore |-> getReviewScore(OrDefault(hotel.reviewScore, DefaultRating)),
   facilities |-> IF Has(hotel.facilities) THEN Val(hotel.facilities)
                  ELSE extractFacilities(hotel.hotel_facilities)]

\* "Apply filters" of searchAccommodationsAPI
ApiFacilityMatch(acc, facility) ==
  \E i \in 1..Len(acc.facilities) :
    Includes(ToLowerCase(acc.facilities[i]), ToLowerCase(facility))

ApiFilter(accommodations, params) ==
  LET byType == IF Has(params.accommodationType) /\ Val(params.accommodationType) # ""
                THEN SelectSeq(accommodations,
                               LAMBDA acc : acc.type = Val(params.accommodationType))
                ELSE accommodations
      byMin == IF Truthy(params.minPrice)
               THEN SelectSeq(byType, LAMBDA acc : acc.pricePerNight >= Val(params.minPrice))
               ELSE byType
      byMax == IF Truthy(params.maxPrice)
               THEN SelectSeq(byMin, LAMBDA acc : acc.pricePerNight <= Val(params.maxPrice))
               ELSE byMin
      byRating == IF Truthy(params.rating)
                  THEN SelectSeq(byMax, LAMBDA acc : acc.rating >= Val(params.rating))
                  ELSE byMax
  IN IF Has(params.facilities) /\ Len(Val(params.facilities)) > 0
     THEN SelectSeq(byRating,
                    LAMBDA acc : \A i \in 1..Len(Val(params.facilities)) :
                                   ApiFacilityMatch(acc, Val(params.facilities)[i]))
     ELSE byRating

\* The value searchAccommodationsAPI returns once the hotel search answered
\* 2xx with a parseable body: the reshaped, filtered list.
TransformAndFilter(hotels, params) ==
  LET sliced == Slice(hotels, SliceLimit)
  IN ApiFilter([i \in 1..Len(sliced) |-> ReshapeHotel(sliced[i], params)], params)

\* ---------------------------------------------------------------- mock data
MockAccommodations(args) ==
  <<[id |-> "b1", type |-> "hotel", pricePerNight |-> 185,
     totalPrice |-> OrDefault(args.nights, DefaultNights) * 185,
     rating |-> 89, reviewScore |-> "Excellent",
     facilities |-> <<"free-wifi", "pool", "spa", "gym", "restaurant", "parking",
                      "airport-shuttle">>],
    [id |-> "b2", type |-> "apartment", pricePerNight |-> 120,
     totalPrice |-> OrDefault(args.nights, DefaultNights) * 120,
     rating |-> 92, reviewScore |-> "Superb",
     facilities |-> <<"free-wifi", "kitchen", "parking", "family-friendly",
                      "washing-machine">>],
    [id |-> "b3", type |-> "resort", pricePerNight |-> 389,
     totalPrice |-> OrDefault(args.nights, DefaultNights) * 389,
     rating |-> 95, reviewScore |-> "Exceptional",
     facilities |-> <<"free-wifi", "pool", "spa", "gym", "restaurant", "beach-access",
                      "all-inclusive", "kids-club", "tennis-court">>]>>

\* "Apply filters to mock data" of the tools/call handler
MockFacilityMatch(acc, facility) ==
  \E i \in 1..Len(acc.facilities) : Includes(acc.facilities[i], ToLowerCase(facility))

MockFilter(accommodations, args) ==
  LET byType == IF Has(args.accommodationType) /\ Val(args.accommodationType) # ""
                THEN SelectSeq(accommodations,
                               LAMBDA acc : acc.type = Val(args.accommodationType))
                ELSE accommodations
      byMin == IF Truthy(args.minPrice)
               THEN SelectSeq(byType, LAMBDA acc : acc.pricePerNight >= Val(args.minPrice))
               ELSE byType
      byMax == IF Truthy(args.maxPrice)
               THEN SelectSeq(byMin, LAMBDA acc : acc.pricePerNight <= Val(args.maxPrice))
               ELSE byMin
      byRating == IF Truthy(args.rating)
                  THEN SelectSeq(byMax, LAMBDA acc : acc.rating >= Val(args.rating))
                  ELSE byMax
  IN IF Has(args.facilities) /\ Len(Val(args.facilities)) > 0
     THEN SelectSeq(byRating,
                    LAMBDA acc : \A i \in 1..Len(Val(args.facilities)) :
                                   MockFacilityMatch(acc, Val(args.facilities)[i]))
     ELSE byRating

\* -------------------------------------------------------------------- state
VARIABLES
  key,            \* RAPIDAPI_KEY is a non-empty string
  pc,             \* where the tools/call handler stands
  toolName,       \* request.params.name
  arguments,      \* request.params.arguments
  outbound,       \* the upstream requests sent during this call, in order
  destOutcome,    \* how the destination lookup ended ("none": not answered)
  hotelsOutcome,  \* how the hotel search ended ("none": not answered)
  hotelsData,     \* hotelsData.data.hotels of a 2xx hotel search
  apiResult,      \* value returned by searchAccommodationsAPI (None is null)
  response,       \* what the handler handed back (None: nothing yet)
  log,            \* console.warn / console.error calls of this call
  sessions,       \* the sessions map: per session id its SessionRecord, or None
  sse,            \* per session id: where handleSseRequest stands
  closed,         \* session ids whose transport.onclose has run
  sseStatus,      \* per session id: status of the GET /mcp response
  post,           \* the latest POST /mcp/messages: its sessionId, the status
                  \* answered, and the transport it was handed to (if any)
  inflight,       \* per session id: requests its Server is processing
  applied,        \* the operation last applied on its own, with its input
  answer          \* what that operation returned

callVars == <<pc, toolName, arguments, outbound, destOutcome, hotelsOutcome,
              hotelsData, apiResult, response, log>>
postVars == <<post, inflight>>
sessionVars == <<sessions, sse, closed, sseStatus, postVars>>
applyVars == <<applied, answer>>
vars == <<key, callVars, sessionVars, applyVars>>

SessionIds == 1..MaxSessions

\* ------------------------------------------------------ tools/call handler
\* Mutants of FallbackNeeded: the empty list is not replaced; a short list is.
FallbackOnlyOnNull(api) == ~Has(api)
FallbackWhenFewResults(api) == ~Has(api) \/ Len(Val(api)) <= 1

\* `!accommodations || accommodations.length === 0`
FallbackNeeded(api) == ~Has(api) \/ Len(Val(api)) = 0

\* Mutant of UsingMockData: the flag is never raised.
UsingMockDataNever(keySet) == FALSE

\* `usingMockData: !RAPIDAPI_KEY` and the notice appended to the text
UsingMockData(keySet) == ~keySet

\* The object the handler returns for a parsed search call, given what
\* searchAccommodationsAPI returned.
CallToolResult(args, api, keySet) ==
  LET accommodations == IF FallbackNeeded(api)
                        THEN MockFilter(MockAccommodations(args), args)
                        ELSE Val(api)
  IN [kind |-> "result",
      text |-> [found |-> Len(accommodations),
                destination |-> Val(args.destination),
                mockNotice |-> ~keySet],
      structuredContent |->
        [destination |-> Val(args.destination),
         nights |-> OrDefault(args.nights, DefaultNights),
         adults |-> OrDefault(args.adults, DefaultAdults),
         children |-> OrDefault(args.children, DefaultChildren),
         rooms |-> OrDefault(args.rooms, DefaultRooms),
         accommodations |-> accommodations,
         totalResults |-> Len(accommodations),
         filters |-> [accommodationType |-> args.accommodationType,
                      facilities |-> args.facilities,
                      minPrice |-> args.minPrice,
                      maxPrice |-> args.maxPrice,
                      rating |-> args.rating],
         usingMockData |-> UsingMockData(keySet)]]

ErrorResponse(message) == [kind |-> "error", message |-> message]

FallbackLog(api) == IF FallbackNeeded(api) THEN <<"using-mock">> ELSE <<>>

DestinationRequest(params) ==
  [endpoint |-> "searchDestinations", query |-> Val(params.destination)]

\* Mutant of HotelsRequest: the guest numbers of the caller are not passed on.
HotelsRequestFixedGuests(params) ==
  [endpoint |-> "searchHotels",
   adults |-> DefaultAdults,
   children_age |-> 0,
   room_qty |-> DefaultRooms]

HotelsRequest(params) ==
  [endpoint |-> "searchHotels",
   adults |-> OrDefault(params.adults, DefaultAdults),
   children_age |-> IF Truthy(params.children) THEN Val(params.children) ELSE 0,
   room_qty |-> OrDefault(params.rooms, DefaultRooms)]

\* Mutant of Return: a failed upstream call is reported to the caller.
ReturnPropagatesFailure(api, entry) ==
  /\ apiResult' = api
  /\ log' = log \o entry
  /\ response' = IF Has(api) THEN Some(CallToolResult(arguments, api, key))
                 ELSE Some(ErrorResponse("Upstream failure"))
  /\ pc' = "done"

\* searchAccommodationsAPI returned `api`: the rest of the handler runs.
Return(api, entry) ==
  /\ apiResult' = api
  /\ log' = log \o entry \o FallbackLog(api)
  /\ response' = Some(CallToolResult(arguments, api, key))
  /\ pc' = "done"

CallInit ==
  /\ pc = "idle"
  /\ toolName = ""
  /\ arguments = None
  /\ outbound = <<>>
  /\ destOutcome = "none"
  /\ hotelsOutcome = "none"
  /\ hotelsData = <<>>
  /\ apiResult = None
  /\ response = None
  /\ log = <<>>

SessionInit ==
  /\ sessions = [id \in SessionIds |-> None]
  /\ sse = [id \in SessionIds |-> "unused"]
  /\ closed = {}
  /\ sseStatus = [id \in SessionIds |-> 0]
  /\ post = [sessionId |-> None, status |-> 0, transport |-> None]
  /\ inflight = [id \in SessionIds |-> 0]

\* No operation has been applied on its own yet.
ApplyInit == applied = [op |-> "none"] /\ answer = None

Init == key \in BOOLEAN /\ CallInit /\ SessionInit /\ ApplyInit

\* A tools/call request arrives; the handler runs to its first upstream
\* await, or to its end when it needs none.
CallTool(name, args) ==
  /\ pc = "idle"
  /\ toolName' = name
  /\ arguments' = args
  /\ IF name # ToolName
     THEN /\ response' = Some(ErrorResponse("Unknown tool"))
          /\ pc' = "done"
          /\ UNCHANGED <<outbound, apiResult, log>>
     ELSE IF ~ParseOk(args)
     THEN /\ response' = Some(ErrorResponse("ZodError"))
          /\ pc' = "done"
          /\ UNCHANGED <<outbound, apiResult, log>>
     ELSE IF ~key
     THEN /\ apiResult' = None
          /\ log' = <<"key-not-set">> \o FallbackLog(None)
          /\ response' = Some(CallToolResult(args, None, key))
          /\ pc' = "done"
          /\ UNCHANGED outbound
     ELSE /\ outbound' = <<DestinationRequest(args)>>
          /\ pc' = "awaitDestinations"
          /\ UNCHANGED <<apiResult, response, log>>
  /\ UNCHANGED <<applyVars, key, destOutcome, hotelsOutcome, hotelsData, sessionVars>>

\* Mutant of DestinationsSettle: a non-2xx answer is retried once.
DestinationsSettleRetries(outcome) ==
  /\ pc = "awaitDestinations"
  /\ IF outcome = "found"
     THEN /\ destOutcome' = outcome
          /\ outbound' = Append(outbound, HotelsRequest(arguments))
          /\ pc' = "awaitHotels"
          /\ UNCHANGED <<apiResult, response, log>>
     ELSE IF outcome = "notOk" /\ Len(outbound) < 2
     THEN /\ outbound' = Append(outbound, DestinationRequest(arguments))
          /\ UNCHANGED <<pc, destOutcome, apiResult, response, log>>
     ELSE /\ destOutcome' = outcome
          /\ apiResult' = None
          /\ log' = log \o <<outcome>> \o FallbackLog(None)
          /\ response' = Some(CallToolResult(arguments, None, key))
          /\ pc' = "done"
          /\ UNCHANGED outbound
  /\ UNCHANGED <<applyVars, key, toolName, arguments, hotelsOutcome, hotelsData, sessionVars>>

\* The destination lookup settles: rejected fetch, non-2xx, unparseable
\* body, no destination, or a destination id.
DestinationsSettle(outcome) ==
  /\ pc = "awaitDestinations"
  /\ destOutcome' = outcome
  /\ IF outcome = "found"
     THEN /\ outbound' = Append(outbound, HotelsRequest(arguments))
          /\ pc' = "awaitHotels"
          /\ UNCHANGED <<apiResult, response, log>>
     ELSE /\ Return(None, <<outcome>>)
          /\ UNCHANGED outbound
  /\ UNCHANGED <<applyVars, key, toolName, arguments, hotelsOutcome, hotelsData, sessionVars>>

\* The hotel search settles.
HotelsSettle(outcome, hotels) ==
  /\ pc = "awaitHotels"
  /\ hotelsOutcome' = outcome
  /\ IF outcome = "ok"
     THEN /\ hotelsData' = hotels
          /\ Return(Some(TransformAndFilter(hotels, arguments)), <<>>)
     ELSE /\ hotels = <<>>
          /\ hotelsData' = <<>>
          /\ Return(None, <<outcome>>)
  /\ UNCHANGED <<applyVars, key, toolName, arguments, outbound, destOutcome, sessionVars>>

\* The response has been delivered; the server waits for the next request.
NextRequest ==
  /\ pc = "done"
  /\ pc' = "idle"
  /\ toolName' = ""
  /\ arguments' = None
  /\ outbound' = <<>>
  /\ destOutcome' = "none"
  /\ hotelsOutcome' = "none"
  /\ hotelsData' = <<>>
  /\ apiResult' = None
  /\ response' = None
  /\ log' = <<>>
  /\ UNCHANGED <<applyVars, key, sessionVars>>

Next ==
  \/ pc = "idle" /\ \E call \in ToolCalls : CallTool(call[1], call[2])
  \/ pc = "awaitDestinations" /\ \E outcome \in DestOutcomes : DestinationsSettle(outcome)
  \/ pc = "awaitHotels" /\ \E outcome \in HotelsOutcomes, hotels \in HotelLists :
                              HotelsSettle(outcome, hotels)
  \/ NextRequest

Spec == Init /\ [][Next]_vars

\* ------------------------------------------------------ SSE session layer
\* Map.prototype.set / delete on the sessions map
MapSet(map, id, record) == [map EXCEPT ![id] = Some(record)]
MapDelete(map, id) == [map EXCEPT ![id] = None]

\* transport.sessionId of a new SSEServerTransport: an id never used before
FreshSessionId == CHOOSE id \in SessionIds :
                    /\ sse[id] = "unused"
                    /\ \A other \in SessionIds : sse[other] = "unused" => id <= other

\* What handleSseRequest does up to `await server.connect(transport)`: a new
\* Server and transport, registered under the transport's session id.
SseRegister ==
  /\ \E id \in SessionIds : sse[id] = "unused"
  /\ LET id == FreshSessionId
     IN /\ sessions' = MapSet(sessions, id, [server |-> id, transport |-> id])
        /\ sse' = [sse EXCEPT ![id] = "connecting"]

\* GET /mcp: handleSseRequest up to `await server.connect(transport)`
SseRequest ==
  /\ SseRegister
  /\ UNCHANGED <<applyVars, key, callVars, closed, sseStatus, postVars>>

\* server.connect(transport) resolves: the SSE stream is open
ConnectResolves(id) ==
  /\ sse[id] = "connecting"
  /\ sse' = [sse EXCEPT ![id] = "open"]
  /\ sseStatus' = [sseStatus EXCEPT ![id] = 200]
  /\ UNCHANGED <<applyVars, key, callVars, sessions, closed, postVars>>

\* Mutant of ConnectRejects: the catch block forgets sessions.delete.
ConnectRejectsKeepsEntry(id, headersSent) ==
  /\ sse[id] = "connecting"
  /\ sse' = [sse EXCEPT ![id] = "failed"]
  /\ sseStatus' = [sseStatus EXCEPT ![id] = IF headersSent THEN 200 ELSE 500]
  /\ UNCHANGED <<applyVars, key, callVars, sessions, closed, postVars>>

\* server.connect(transport) rejects: the catch block of handleSseRequest
ConnectRejects(id, headersSent) ==
  /\ sse[id] = "connecting"
  /\ sessions' = MapDelete(sessions, id)
  /\ sse' = [sse EXCEPT ![id] = "failed"]
  /\ sseStatus' = [sseStatus EXCEPT ![id] = IF headersSent THEN 200 ELSE 500]
  /\ UNCHANGED <<applyVars, key, callVars, closed, postVars>>

\* Mutant of TransportClose: the callback forgets sessions.delete.
TransportCloseKeepsEntry(id) ==
  /\ sse[id] # "unused"
  /\ id \notin closed
  /\ closed' = closed \cup {id}
  /\ UNCHANGED <<applyVars, key, callVars, sessions, sse, sseStatus, postVars>>

\* Mutant of TransportClose: the callback clears the whole sessions map.
TransportCloseDropsAll(id) ==
  /\ sse[id] # "unused"
  /\ id \notin closed
  /\ sessions' = [other \in SessionIds |-> None]
  /\ closed' = closed \cup {id}
  /\ UNCHANGED <<applyVars, key, callVars, sse, sseStatus, postVars>>

\* The transport closes: the transport.onclose callback (sessions.delete and
\* server.close() of the session's own Server)
TransportClose(id) ==
  /\ sse[id] # "unused"
  /\ id \notin closed
  /\ sessions' = MapDelete(sessions, id)
  /\ closed' = closed \cup {id}
  /\ UNCHANGED <<applyVars, key, callVars, sse, sseStatus, postVars>>

\* The sessionId query parameter of a POST: missing, or any id (one never
\* handed out, one of an open session, one of a session that is gone).
PostSessionIds == {None} \cup {Some(id) : id \in SessionIds}

\* What session.transport.handlePostMessage may do with a POST: accept it and
\* pass the message to its Server, answer an error itself, or throw before
\* any header is sent.
TransportOutcomes == {"accepted", "rejected", "throws"}

\* Map.prototype.get on the sessions map
MapGet(map, id) == map[id]

\* Mutant of RouteTransport: every POST goes to the oldest session's transport.
RouteToFirstSession(map, id) ==
  LET present == {other \in SessionIds : Has(map[other])}
  IN Val(map[CHOOSE first \in present : \A other \in present : first <= other]).transport

\* `session.transport` of the record found under the POST's sessionId
RouteTransport(map, id) == Val(MapGet(map, id)).transport

\* Mutant of PostStatus: a missing sessionId is answered like an unknown one.
PostStatusMissingAsUnknown(sid, map) ==
  IF ~Has(sid) THEN 404
  ELSE IF ~Has(map[Val(sid)]) THEN 404
  ELSE 0

\* The status handlePostMessage answers itself, 0 when it hands the POST on.
PostStatus(sid, map) ==
  IF ~Has(sid) THEN 400
  ELSE IF ~Has(MapGet(map, Val(sid))) THEN 404
  ELSE 0

\* Mutant of Dispatch: a POST is held back while the session is busy.
DispatchWhenIdle(count) == IF count = 0 THEN 1 ELSE count

\* The requests a Server is processing once one more message reached it.
Dispatch(count) == count + 1

\* Requests in process over all sessions.
RECURSIVE InFlightTotal(_, _)
InFlightTotal(counts, ids) ==
  IF ids = {} THEN 0
  ELSE LET id == CHOOSE one \in ids : TRUE
       IN counts[id] + InFlightTotal(counts, ids \ {id})

\* What handlePostMessage does with the sessionId of a POST: it answers 400
\* or 404 itself, or hands the POST to the transport found under the id.
PostRoute(sid, outcome) ==
  IF PostStatus(sid, sessions) # 0
  THEN /\ outcome = "accepted"
       /\ post' = [sessionId |-> sid, status |-> PostStatus(sid, sessions),
                   transport |-> None]
       /\ UNCHANGED inflight
  ELSE LET transport == RouteTransport(sessions, Val(sid))
       IN /\ outcome = "accepted" => InFlightTotal(inflight, SessionIds) < MaxInFlight
          /\ post' = [sessionId |-> sid,
                      status |-> CASE outcome = "accepted" -> 202
                                   [] outcome = "rejected" -> 400
                                   [] OTHER -> 500,
                      transport |-> Some(transport)]
          /\ inflight' = IF outcome = "accepted"
                         THEN [inflight EXCEPT ![transport] = Dispatch(@)]
                         ELSE inflight

\* POST /mcp/messages: handlePostMessage
PostMessage(sid, outcome) ==
  /\ PostRoute(sid, outcome)
  /\ UNCHANGED <<applyVars, key, callVars, sessions, sse, closed, sseStatus>>

\* A request handler of the session's Server returns its response.
RequestCompletes(id) ==
  /\ inflight[id] > 0
  /\ inflight' = [inflight EXCEPT ![id] = @ - 1]
  /\ UNCHANGED <<applyVars, key, callVars, sessions, sse, closed, sseStatus, post>>

SessionNext ==
  \/ SseRequest
  \/ \E id \in SessionIds : ConnectResolves(id)
  \/ \E id \in SessionIds, headersSent \in BOOLEAN : ConnectRejects(id, headersSent)
  \/ \E id \in SessionIds : TransportClose(id)

\* The session layer with the POSTs of its clients.  One session id is never
\* handed out, so that a POST naming a session that was never opened stays
\* possible however many connections have been made.
PostNext ==
  \/ Cardinality({id \in SessionIds : sse[id] = "unused"}) > 1 /\ SseRequest
  \/ \E id \in SessionIds : ConnectResolves(id)
  \/ \E id \in SessionIds, headersSent \in BOOLEAN : ConnectRejects(id, headersSent)
  \/ \E id \in SessionIds : TransportClose(id)
  \/ \E sid \in PostSessionIds, outcome \in TransportOutcomes : PostMessage(sid, outcome)
  \/ \E id \in SessionIds : RequestCompletes(id)

PostSpec == Init /\ [][PostNext]_vars

SessionSpec == Init /\ [][SessionNext]_vars

\* --------------------------------------- helpers and resource handlers
\* Facility label lists of accommodation records: the first and second mock
\* record of server.ts, two mock records of the server that quick-start.sh
\* writes, and the lists an upstream hotel of the catalogue comes with.
FacilityLabelLists ==
  {<<"free-wifi", "pool", "spa", "gym", "restaurant", "parking", "airport-shuttle">>,
   <<"free-wifi", "kitchen", "parking", "family-friendly", "washing-machine">>,
   <<"WiFi", "Swimming pool", "Spa and wellness centre", "Parking", "Restaurant",
     "Bar", "Fitness centre", "Room service">>,
   <<"WiFi", "Kitchen", "Parking", "Family rooms", "Laundry", "Heating",
     "Air conditioning">>,
   <<"Swimming Pool", "Free WiFi">>,
   <<"wifi", "parking">>}

\* Facility names a caller may ask for: the enumeration of the tool schema,
\* and two names in other letter cases (the parser takes any string).
FacilityNames ==
  {"pool", "parking", "free-breakfast", "gym", "all-inclusive", "family-friendly",
   "wifi", "spa", "restaurant", "airport-shuttle", "pet-friendly", "beach-access",
   "kitchen", "WiFi", "POOL"}

\* Type strings an upstream hotel may carry.
TypeStrings ==
  {"hotel", "Hotel", "HOTEL", "apartment", "Apartment", "hostel", "Hostel",
   "guest house", "Guest House", "GUEST HOUSE", "vacation home", "Vacation Home",
   "resort", "Resort", "RESORT", "villa", "Villa", "chalet", "Chalet",
   "bed and breakfast", "Bed and Breakfast", "lodge", "Lodge", "LODGE",
   "castle", "Motel", "guest-house", "constructor", "Constructor", "__proto__"}

\* The two facility callbacks applied to one record and one requested name.
MatchFacility(labels, facility) ==
  /\ applied' = [op |-> "matchFacility", labels |-> labels, facility |-> facility]
  /\ answer' = Some([api |-> ApiFacilityMatch([facilities |-> labels], facility),
                     mock |-> MockFacilityMatch([facilities |-> labels], facility)])
  /\ UNCHANGED <<key, callVars, sessionVars>>

\* determineAccommodationType applied to one type string.
DetermineType(type) ==
  /\ applied' = [op |-> "determineAccommodationType", type |-> type]
  /\ answer' = Some(determineAccommodationType(type))
  /\ UNCHANGED <<key, callVars, sessionVars>>

WidgetTemplateUri == "ui://widget/booking-com-search-results.html"
WidgetMimeType == "text/html+skybridge"

\* The widgets table.  html stands for what readWidgetHtml returned at start.
Widgets ==
  <<[id |-> ToolName, templateUri |-> WidgetTemplateUri,
     html |-> "booking-com-search-results.html"]>>

\* widgetsById / widgetsByUri: the widget stored last under the key, if any.
WidgetsById(id) ==
  LET hits == {i \in 1..Len(Widgets) : Widgets[i].id = id}
  IN IF hits = {} THEN None
     ELSE Some(Widgets[CHOOSE i \in hits : \A j \in hits : j <= i])

\* Mutant of WidgetsByUri: any identifier of the widget table finds a widget.
WidgetsByUriOrId(uri) ==
  LET hits == {i \in 1..Len(Widgets) : Widgets[i].templateUri = uri \/ Widgets[i].id = uri}
  IN IF hits = {} THEN None
     ELSE Some(Widgets[CHOOSE i \in hits : \A j \in hits : j <= i])

WidgetsByUri(uri) ==
  LET hits == {i \in 1..Len(Widgets) : Widgets[i].templateUri = uri}
  IN IF hits = {} THEN None
     ELSE Some(Widgets[CHOOSE i \in hits : \A j \in hits : j <= i])

\* The resources list: one entry per value of widgetsById.
Resources ==
  {[uri |-> Val(WidgetsById(Widgets[i].id)).templateUri, mimeType |-> WidgetMimeType] :
     i \in 1..Len(Widgets)}

\* URIs a client may ask to read.
ResourceUris ==
  {WidgetTemplateUri, "ui://widget/other.html", ToolName, "",
   "UI://WIDGET/BOOKING-COM-SEARCH-RESULTS.HTML", "booking-com-search-results"}

\* The ListResources handler
ListResources ==
  /\ applied' = [op |-> "resources/list"]
  /\ answer' = Some([kind |-> "result", resources |-> Resources])
  /\ UNCHANGED <<key, callVars, sessionVars>>

\* The ReadResource handler
ReadResource(uri) ==
  /\ applied' = [op |-> "resources/read", uri |-> uri]
  /\ answer' = LET widget == WidgetsByUri(uri)
               IN IF ~Has(widget)
                  THEN Some([kind |-> "error", message |-> "Unknown resource", contents |-> <<>>])
                  ELSE Some([kind |-> "result", message |-> "",
                             contents |-> <<[uri |-> Val(widget).templateUri,
                                             mimeType |-> WidgetMimeType,
                                             text |-> Val(widget).html]>>])
  /\ UNCHANGED <<key, callVars, sessionVars>>

HelperNext ==
  \/ \E labels \in FacilityLabelLists, facility \in FacilityNames : MatchFacility(labels, facility)
  \/ \E type \in TypeStrings : DetermineType(type)
  \/ ListResources
  \/ \E uri \in ResourceUris : ReadResource(uri)

HelperSpec == Init /\ [][HelperNext]_vars

\* ------------------------------------------------------- Cloudflare worker
\* The JSON bodies a client may POST: one that request.json() cannot parse,
\* and objects with or without method, params.uri, params.name and
\* params.arguments.
WorkerArguments ==
  [destination : {None, Some("Paris")},
   nights : {None}, adults : {None}, children : {None}, rooms : {None},
   accommodationType : {None}, minPrice : {None}, maxPrice : {None},
   rating : {None}, facilities : {None}]

\* `{}`, what `body.params?.arguments || {}` gives without arguments
EmptyArguments ==
  [destination |-> None, nights |-> None, adults |-> None, children |-> None,
   rooms |-> None, accommodationType |-> None, minPrice |-> None,
   maxPrice |-> None, rating |-> None, facilities |-> None]

WorkerMethods ==
  {None, Some("tools/list"), Some("resources/list"), Some("resources/templates/list"),
   Some("resources/read"), Some("tools/call"), Some("initialize"), Some("TOOLS/LIST")}

WorkerBodies ==
  {[json |-> FALSE]}
    \cup [json : {TRUE},
          method : WorkerMethods,
          uri : {None, Some(WidgetTemplateUri), Some("ui://widget/other.html")},
          name : {None, Some(ToolName), Some("flights.search")},
          arguments : {None} \cup {Some(a) : a \in WorkerArguments}]

WorkerRequests ==
  [httpMethod : {"GET", "POST", "OPTIONS"},
   pathname : {"/mcp", "/mcp/rpc", "/"},
   body : WorkerBodies]

\* A Response of the worker.  Every `new Response` of fetch spreads
\* corsHeaders into its headers.
WorkerResponse(status, error, result) ==
  [status |-> status, cors |-> TRUE, error |-> error, result |-> result]

\* handleToolCall: the zod parse throws on invalid arguments
WorkerToolCall(args) == IF ParseOk(args) THEN Some("toolResult") ELSE None

\* Mutant of WorkerSwitch: the resources/templates/list case is missing.
WorkerSwitchWithoutTemplates(body) ==
  CASE body.method = Some("tools/list") -> WorkerResponse(200, "", "tools")
    [] body.method = Some("resources/list") -> WorkerResponse(200, "", "resources")
    [] body.method = Some("resources/read") ->
         IF body.uri # Some(WidgetTemplateUri)
         THEN WorkerResponse(404, "Resource not found", "")
         ELSE WorkerResponse(200, "", "contents")
    [] body.method = Some("tools/call") ->
         IF body.name # Some(ToolName)
         THEN WorkerResponse(400, "Unknown tool", "")
         ELSE LET args == IF Has(body.arguments) THEN Val(body.arguments)
                          ELSE EmptyArguments
                  out == WorkerToolCall(args)
              IN IF Has(out) THEN WorkerResponse(200, "", Val(out))
                 ELSE WorkerResponse(500, "ZodError", "")
    [] OTHER -> WorkerResponse(400, "Unknown method", "")

\* The switch on body.method of POST /mcp/rpc, with its catch block.
WorkerSwitch(body) ==
  CASE body.method = Some("tools/list") -> WorkerResponse(200, "", "tools")
    [] body.method = Some("resources/list") -> WorkerResponse(200, "", "resources")
    [] body.method = Some("resources/templates/list") ->
         WorkerResponse(200, "", "resourceTemplates")
    [] body.method = Some("resources/read") ->
         IF body.uri # Some(WidgetTemplateUri)
         THEN WorkerResponse(404, "Resource not found", "")
         ELSE WorkerResponse(200, "", "contents")
    [] body.method = Some("tools/call") ->
         IF body.name # Some(ToolName)
         THEN WorkerResponse(400, "Unknown tool", "")
         ELSE LET args == IF Has(body.arguments) THEN Val(body.arguments)
                          ELSE EmptyArguments
                  out == WorkerToolCall(args)
              IN IF Has(out) THEN WorkerResponse(200, "", Val(out))
                 ELSE WorkerResponse(500, "ZodError", "")
    [] OTHER -> WorkerResponse(400, "Unknown method", "")

\* fetch of the worker
WorkerFetch(request) ==
  IF request.httpMethod = "OPTIONS" THEN WorkerResponse(204, "", "")
  ELSE IF request.pathname = "/mcp" /\ request.httpMethod = "GET"
  THEN WorkerResponse(200, "", "SSE not fully supported. Use POST /mcp/rpc")
  ELSE IF request.pathname = "/mcp/rpc" /\ request.httpMethod = "POST"
  THEN IF ~request.body.json THEN WorkerResponse(500, "SyntaxError", "")
       ELSE WorkerSwitch(request.body)
  ELSE WorkerResponse(404, "", "Not Found")

\* Argument objects for the worker's tool call, varying the filters.
WorkerCallArguments ==
  [destination : {None, Some("Paris")},
   nights : {None}, adults : {None}, children : {None}, rooms : {None},
   accommodationType : {None, Some("hotel")},
   minPrice : {None},
   maxPrice : {None, Some(0), Some(200)},
   rating : {None, Some(90)},
   facilities : {None, Some(<<"pool">>), Some(<<"kitchen">>), Some(<<"airport-shuttle">>)}]

\* mockAccommodations of the worker's handleToolCall
WorkerMockAccommodations(parsed) ==
  <<[id |-> "b1", type |-> "hotel", pricePerNight |-> 185,
     totalPrice |-> OrDefault(parsed.nights, DefaultNights) * 185,
     rating |-> 89, reviewScore |-> "Excellent",
     facilities |-> <<"free-wifi", "pool", "spa", "gym", "restaurant", "parking">>],
    [id |-> "b2", type |-> "apartment", pricePerNight |-> 120,
     totalPrice |-> OrDefault(parsed.nights, DefaultNights) * 120,
     rating |-> 92, reviewScore |-> "Superb",
     facilities |-> <<"free-wifi", "kitchen", "parking", "family-friendly">>],
    [id |-> "b3", type |-> "resort", pricePerNight |-> 389,
     totalPrice |-> OrDefault(parsed.nights, DefaultNights) * 389,
     rating |-> 95, reviewScore |-> "Exceptional",
     facilities |-> <<"free-wifi", "pool", "spa", "beach-access", "all-inclusive">>]>>

\* The four filters of the worker's handleToolCall (it has none on facilities)
WorkerFilter(accommodations, parsed) ==
  LET byType == IF Has(parsed.accommodationType) /\ Val(parsed.accommodationType) # ""
                THEN SelectSeq(accommodations,
                               LAMBDA acc : acc.type = Val(parsed.accommodationType))
                ELSE accommodations
      byMin == IF Truthy(parsed.minPrice)
               THEN SelectSeq(byType, LAMBDA acc : acc.pricePerNight >= Val(parsed.minPrice))
               ELSE byType
      byMax == IF Truthy(parsed.maxPrice)
               THEN SelectSeq(byMin, LAMBDA acc : acc.pricePerNight <= Val(parsed.maxPrice))
               ELSE byMin
  IN IF Truthy(parsed.rating)
     THEN SelectSeq(byMax, LAMBDA acc : acc.rating >= Val(parsed.rating))
     ELSE byMax

\* What handleToolCall returns for arguments the parser accepts
WorkerToolResult(parsed) ==
  LET filteredAccommodations == WorkerFilter(WorkerMockAccommodations(parsed), parsed)
  IN [destination |-> Val(parsed.destination),
      nights |-> OrDefault(parsed.nights, DefaultNights),
      accommodations |-> filteredAccommodations,
      totalResults |-> Len(filteredAccommodations),
      filters |-> [accommodationType |-> parsed.accommodationType,
                   facilities |-> parsed.facilities,
                   minPrice |-> parsed.minPrice,
                   maxPrice |-> parsed.maxPrice,
                   rating |-> parsed.rating]]

\* handleToolCall of the worker runs on one argument object; the parse
\* throws on arguments it rejects (no answer then).
HandleToolCall(args) ==
  /\ applied' = [op |-> "handleToolCall", arguments |-> args]
  /\ answer' = IF ParseOk(args) THEN Some(WorkerToolResult(args)) ELSE None
  /\ UNCHANGED <<key, callVars, sessionVars>>

\* One request reaches the worker and is answered.
Fetch(request) ==
  /\ applied' = [op |-> "fetch", request |-> request]
  /\ answer' = Some(WorkerFetch(request))
  /\ UNCHANGED <<key, callVars, sessionVars>>

WorkerNext ==
  \/ \E request \in WorkerRequests : Fetch(request)
  \/ \E args \in WorkerCallArguments : HandleToolCall(args)

WorkerSpec == Init /\ [][WorkerNext]_vars

\* ------------------------------------------ direct JSON-RPC (quick-start.sh)
\* templateUri of the one widget of the server that quick-start.sh writes
QuickStartTemplateUri == "ui://widget/booking-search-results.html"

\* The bodies a client may POST to /mcp: text that JSON.parse rejects, the
\* JSON value null, and objects with or without method and params.uri.
DirectBodies ==
  {[json |-> FALSE, null |-> FALSE, method |-> None, uri |-> None],
   [json |-> TRUE, null |-> TRUE, method |-> None, uri |-> None]}
    \cup [json : {TRUE}, null : {FALSE},
          method : {None, Some("resources/read"), Some("resources/list"),
                    Some("tools/list"), Some("tools/call"), Some("initialize"),
                    Some("resources/templates/list")},
          uri : {None, Some(QuickStartTemplateUri), Some("ui://widget/other.html"),
                 Some(WidgetTemplateUri)}]

\* What handleDirectJsonRpc writes: the HTTP status, the JSON-RPC error code
\* (0: none) and the result (""; none).
DirectResponse(http, code, result) == [http |-> http, code |-> code, result |-> result]

\* Mutant of DirectReply: tools/list is served in direct mode as well.
DirectReplyServesToolsList(body) ==
  IF ~body.json \/ body.null THEN DirectResponse(400, -32700, "")
  ELSE IF body.method = Some("resources/read")
  THEN IF body.uri # Some(QuickStartTemplateUri)
       THEN DirectResponse(200, -32602, "")
       ELSE DirectResponse(200, 0, "contents")
  ELSE IF body.method = Some("resources/list") THEN DirectResponse(200, 0, "resources")
  ELSE IF body.method = Some("tools/list") THEN DirectResponse(200, 0, "tools")
  ELSE DirectResponse(200, -32601, "")

\* The `end` callback of handleDirectJsonRpc.  JSON.parse throws on text
\* that is no JSON, and reading `.method` of null throws as well; both end
\* in the catch block.
DirectReply(body) ==
  IF ~body.json \/ body.null THEN DirectResponse(400, -32700, "")
  ELSE IF body.method = Some("resources/read")
  THEN IF body.uri # Some(QuickStartTemplateUri)
       THEN DirectResponse(200, -32602, "")
       ELSE DirectResponse(200, 0, "contents")
  ELSE IF body.method = Some("resources/list") THEN DirectResponse(200, 0, "resources")
  ELSE DirectResponse(200, -32601, "")

\* POST /mcp: handleDirectJsonRpc
DirectJsonRpc(body) ==
  /\ applied' = [op |-> "directJsonRpc", body |-> body]
  /\ answer' = Some(DirectReply(body))
  /\ UNCHANGED <<key, callVars, sessionVars>>

\* The session layer with the direct JSON-RPC requests of its clients.
DirectNext ==
  \/ SseRequest
  \/ \E id \in SessionIds : ConnectResolves(id)
  \/ \E id \in SessionIds, headersSent \in BOOLEAN : ConnectRejects(id, headersSent)
  \/ \E id \in SessionIds : TransportClose(id)
  \/ \E body \in DirectBodies : DirectJsonRpc(body)

DirectSpec == Init /\ [][DirectNext]_vars

\* ------------------------------------------------------------------ widget
\* What the host may supply to the widget: nothing, or a tool output with
\* its accommodations (by id) and destination.
HostProps ==
  {None} \cup {Some([accommodations |-> list, destination |-> destination]) :
                 list \in SeqsUpTo({"h1", "h2", "b1"}, MaxCards),
                 destination \in {"Paris", "Rome"}}

\* The default state BookingSearchResults passes to useWidgetProps
WidgetDefaultState == [accommodations |-> <<>>, destination |-> "Search Results"]

\* mockData of useWidgetProps
WidgetMockData ==
  [accommodations |-> <<"7696424", "77320", "mock_resort", "mock_apartment", "mock_villa">>,
   destination |-> "Prague, Czech Republic"]

\* useWidgetProps: returns mockData, whatever the host or the caller supply
useWidgetProps(defaultState, host) == WidgetMockData

\* What BookingSearchResults renders for its props: the empty-state text, or
\* one card per accommodation (the key of each card, in order).
RenderResults(props) ==
  IF Len(props.accommodations) = 0
  THEN [text |-> "No accommodations found", cards |-> <<>>]
  ELSE [text |-> "", cards |-> props.accommodations]

\* BookingSearchResults renders with what the host supplied.
Render(host) ==
  /\ applied' = [op |-> "render", host |-> host]
  /\ answer' = LET props == useWidgetProps(WidgetDefaultState, host)
               IN Some([props |-> props, rendered |-> RenderResults(props)])
  /\ UNCHANGED <<key, callVars, sessionVars>>

WidgetNext == \E host \in HostProps : Render(host)

WidgetSpec == Init /\ [][WidgetNext]_vars

\* ------------------------------------------------------------ HTTP router
ssePath == "/mcp"
postPath == "/mcp/messages"

\* The requests that reach the request listener.  url is what req.url
\* holds: nothing, a request target that `new URL` rejects (such as "//"),
\* or one it parses into pathname and sessionId.
HttpRequests ==
  [url : {"missing", "invalid"}, method : {"GET"}, pathname : {""}, sessionId : {None}]
    \cup [url : {"valid"},
          method : {"GET", "POST", "OPTIONS", "DELETE"},
          pathname : {ssePath, postPath, "/"},
          sessionId : {None}]
    \cup [url : {"valid"}, method : {"POST"}, pathname : {postPath},
          sessionId : {Some(id) : id \in SessionIds}]

\* What the listener does with a request: the status it writes itself
\* (0: none), whether it writes the three CORS headers of the preflight
\* answer, and the handler it awaits.
\* `new URL` throws on a request target it rejects; nothing catches that,
\* so no branch of the table is reached.
RouterReply(status, cors, handler) == [status |-> status, cors |-> cors, handler |-> handler]

Router(request) ==
  IF request.url = "missing" THEN Some(RouterReply(400, FALSE, ""))
  ELSE IF request.url = "invalid" THEN None
  ELSE IF request.method = "OPTIONS" /\ request.pathname \in {ssePath, postPath}
  THEN Some(RouterReply(204, TRUE, ""))
  ELSE IF request.method = "GET" /\ request.pathname = ssePath
  THEN Some(RouterReply(0, FALSE, "handleSseRequest"))
  ELSE IF request.method = "POST" /\ request.pathname = postPath
  THEN Some(RouterReply(0, FALSE, "handlePostMessage"))
  ELSE Some(RouterReply(404, FALSE, ""))

\* The request listener of httpServer runs on one request, the handler it
\* awaits included.
HttpRequest(request, outcome) ==
  /\ applied' = [op |-> "httpRequest", request |-> request]
  /\ answer' = Router(request)
  /\ IF Has(Router(request)) /\ Val(Router(request)).handler = "handleSseRequest"
     THEN /\ outcome = "accepted"
          /\ SseRegister
          /\ UNCHANGED <<closed, sseStatus, postVars>>
     ELSE IF Has(Router(request)) /\ Val(Router(request)).handler = "handlePostMessage"
     THEN /\ PostRoute(request.sessionId, outcome)
          /\ UNCHANGED <<sessions, sse, closed, sseStatus>>
     ELSE /\ outcome = "accepted"
          /\ UNCHANGED sessionVars
  /\ UNCHANGED <<key, callVars>>

\* The server as its clients drive it.  Two session ids are never handed
\* out, which keeps a never-opened id to POST to.
RouterNext ==
  \/ /\ Cardinality({id \in SessionIds : sse[id] = "unused"}) > 2
     /\ \E request \in {r \in HttpRequests : r.method = "GET" /\ r.pathname = ssePath} :
          HttpRequest(request, "accepted")
  \/ \E request \in {r \in HttpRequests : ~(r.method = "GET" /\ r.pathname = ssePath)},
        outcome \in TransportOutcomes : HttpRequest(request, outcome)
  \/ \E id \in SessionIds : ConnectResolves(id)
  \/ \E id \in SessionIds, headersSent \in BOOLEAN : ConnectRejects(id, headersSent)
  \/ \E id \in SessionIds : TransportClose(id)
  \/ \E id \in SessionIds : RequestCompletes(id)

RouterSpec == Init /\ [][RouterNext]_vars

\* ---------------------------------------------------------- static assets
\* The static asset branch of the request listener that quick-start.sh
\* writes.  Paths are strings, taken apart character by character as the
\* URL parser and the path module do.

\* String.prototype.startsWith
StartsWith(s, prefix) ==
  Len(s) >= Len(prefix) /\ SubSeq(s, 1, Len(prefix)) = prefix

\* The pieces of s between the characters of seps: piece k lies between
\* the (k-1)-th and the k-th separator of s.
Split(s, seps) ==
  LET at == {i \in 1..Len(s) : SubSeq(s, i, i) \in seps}
      bound(k) == IF k = 0 THEN 0
                  ELSE IF k > Cardinality(at) THEN Len(s) + 1
                  ELSE CHOOSE i \in at : Cardinality({j \in at : j < i}) = k - 1
  IN [k \in 1..(Cardinality(at) + 1) |-> SubSeq(s, bound(k - 1) + 1, bound(k) - 1)]

RECURSIVE Join(_, _)
Join(pieces, sep) ==
  IF Len(pieces) = 0 THEN ""
  ELSE IF Len(pieces) = 1 THEN Head(pieces)
  ELSE Head(pieces) \o sep \o Join(Tail(pieces), sep)

\* The platforms the path module is built for: its separators, the
\* separator it writes, and the root of an absolute path.
Platforms == {"posix", "win32"}
Separators(platform) == IF platform = "win32" THEN {"/", "\\"} ELSE {"/"}
Sep(platform) == IF platform = "win32" THEN "\\" ELSE "/"
Root(platform) == IF platform = "win32" THEN "C:" ELSE ""

\* path.resolve of an absolute path: ".", "" and ".." segments are worked
\* off from left to right; ".." never leaves the root.
RECURSIVE Normalize(_, _)
Normalize(pieces, out) ==
  IF Len(pieces) = 0 THEN out
  ELSE LET piece == Head(pieces)
       IN IF piece \in {"", "."} THEN Normalize(Tail(pieces), out)
          ELSE IF piece = ".."
          THEN Normalize(Tail(pieces),
                         IF Len(out) > 0 THEN SubSeq(out, 1, Len(out) - 1) ELSE out)
          ELSE Normalize(Tail(pieces), Append(out, piece))

PathResolve(platform, p) ==
  LET pieces == Split(p, Separators(platform))
  IN Head(pieces) \o Sep(platform)
       \o Join(Normalize(Tail(pieces), <<>>), Sep(platform))

\* path.join(a, b) as far as path.resolve of it goes: the two joined by the
\* separator; the normalisation is that of PathResolve.
PathJoin(platform, a, b) == a \o Sep(platform) \o b

PathOf(platform, names) == Root(platform) \o Sep(platform) \o Join(names, Sep(platform))

ROOT_DIR(platform) == PathOf(platform, <<"srv">>)
ASSETS_DIR(platform) == PathResolve(platform, PathJoin(platform, ROOT_DIR(platform), "assets"))

\* The file system around the server: the assets directory with a widget
\* bundle (once the widgets are built) and a subdirectory, and next to it a
\* directory whose name starts with "assets".
RegularFiles(platform, built) ==
  (IF built THEN {PathOf(platform, <<"srv", "assets", "widget.js">>)} ELSE {})
    \cup {PathOf(platform, <<"srv", "assets", "img", "logo.png">>),
          PathOf(platform, <<"srv", "assets-private", "secret.txt">>)}

IsFile(platform, built, p) == p \in RegularFiles(platform, built)

\* The URL parser's dot segments, percent-encoded or not.
IsSingleDot(segment) == segment \in {".", "%2e", "%2E"}
IsDoubleDot(segment) ==
  segment \in {"..", ".%2e", ".%2E", "%2e.", "%2E.",
               "%2e%2e", "%2e%2E", "%2E%2e", "%2E%2E"}

\* The path state of the URL parser: a double-dot segment drops the
\* segment before it, a single-dot segment is dropped, and either one at
\* the end leaves an empty last segment.
RECURSIVE UrlPath(_, _)
UrlPath(segments, out) ==
  IF Len(segments) = 0 THEN out
  ELSE LET segment == Head(segments)
           last == Len(segments) = 1
           shortened == IF Len(out) > 0 THEN SubSeq(out, 1, Len(out) - 1) ELSE out
       IN IF IsDoubleDot(segment)
          THEN UrlPath(Tail(segments), IF last THEN Append(shortened, "") ELSE shortened)
          ELSE IF IsSingleDot(segment)
          THEN UrlPath(Tail(segments), IF last THEN Append(out, "") ELSE out)
          ELSE UrlPath(Tail(segments), Append(out, segment))

\* What precedes the path of a request target: nothing (origin form), or
\* scheme and authority (absolute form).  http is a special scheme, x is
\* not.
Origins == {"", "http://h", "x://h"}

OriginOf(target) ==
  IF StartsWith(target, "http://h") THEN "http://h"
  ELSE IF StartsWith(target, "x://h") THEN "x://h"
  ELSE ""

\* new URL(req.url, base).pathname.  With a special scheme (that of the
\* base for an origin-form target) a backslash separates segments as a
\* slash does; with any other scheme it is a character of the segment.
\* Percent-encoded bytes other than the dot segments stay as they are.
UrlPathname(target) ==
  LET origin == OriginOf(target)
      special == origin # "x://h"
      rest == SubSeq(target, Len(origin) + 1, Len(target))
      pieces == Split(rest, IF special THEN {"/", "\\"} ELSE {"/"})
  IN "/" \o Join(UrlPath(Tail(pieces), <<>>), "/")

\* path.extname, lower-cased: from the last dot of the last segment, when
\* that dot is not its first character.
ExtName(platform, p) ==
  LET pieces == Split(p, Separators(platform))
      base == pieces[Len(pieces)]
      dots == {i \in 2..Len(base) : SubSeq(base, i, i) = "."}
  IN IF dots = {} THEN ""
     ELSE ToLowerCase(SubSeq(base, CHOOSE i \in dots : \A j \in dots : j <= i, Len(base)))

contentTypes(ext) ==
  CASE ext = ".html" -> "text/html"
    [] ext = ".js" -> "application/javascript"
    [] ext = ".css" -> "text/css"
    [] ext = ".json" -> "application/json"
    [] ext = ".png" -> "image/png"
    [] ext = ".jpg" -> "image/jpeg"
    [] ext = ".jpeg" -> "image/jpeg"
    [] ext = ".gif" -> "image/gif"
    [] ext = ".svg" -> "image/svg+xml"
    [] ext = ".ico" -> "image/x-icon"
    [] OTHER -> "application/octet-stream"

\* The paths of the GET requests that reach the static asset branch.
AssetPaths ==
  {"/", "/widget.js", "/img", "/img/logo.png", "/img/../widget.js",
   "/missing.css", "/./widget.js",
   "/../assets-private/secret.txt", "/%2e%2e/assets-private/secret.txt",
   "/..%2fassets-private%2fsecret.txt",
   "/..\\assets-private\\secret.txt", "/..\\..\\etc\\passwd",
   "/img\\logo.png"}

AssetTargets == {origin \o p : origin \in Origins, p \in AssetPaths}

\* The resolved path the branch works with.
ResolvedPath(platform, target) ==
  LET assetPath == SubSeq(UrlPathname(target), 2, Len(UrlPathname(target)))
      fullPath == PathJoin(platform, ASSETS_DIR(platform), assetPath)
  IN PathResolve(platform, fullPath)

\* The branch: 403 outside ASSETS_DIR by the test on the resolved path's
\* beginning, the file with its content type when it is a regular file, and
\* the listener's closing 404 otherwise.
ServeAsset(platform, built, target) ==
  LET resolvedPath == ResolvedPath(platform, target)
  IN IF ~StartsWith(resolvedPath, PathResolve(platform, ASSETS_DIR(platform)))
     THEN [status |-> 403, contentType |-> None, streamed |-> None]
     ELSE IF IsFile(platform, built, resolvedPath)
     THEN [status |-> 200,
           contentType |-> Some(contentTypes(ExtName(platform, resolvedPath))),
           streamed |-> Some(resolvedPath)]
     ELSE [status |-> 404, contentType |-> None, streamed |-> None]

StaticAsset(platform, built, target) ==
  /\ applied' = [op |-> "staticAsset", platform |-> platform, built |-> built,
                 target |-> target]
  /\ answer' = Some(ServeAsset(platform, built, target))
  /\ UNCHANGED <<key, callVars, sessionVars>>

AssetNext ==
  \E platform \in Platforms, built \in BOOLEAN, target \in AssetTargets :
    StaticAsset(platform, built, target)

AssetSpec == Init /\ [][AssetNext]_vars

\* =================================================================== claims
\* Vocabulary of the claims, stated from their wording and not from the code.

Range(s) == {s[i] : i \in 1..Len(s)}

\* A search call (known tool) has run to its end.
SearchDone == pc = "done" /\ toolName = ToolName

\* The argument object breaks one of the documented input constraints.
InvalidArguments(args) ==
  \/ ~Has(args.destination)
  \/ Has(args.nights) /\ Val(args.nights) < 1
  \/ Has(args.adults) /\ Val(args.adults) < 1
  \/ Has(args.rooms) /\ Val(args.rooms) < 1
  \/ Has(args.children) /\ Val(args.children) < 0
  \/ Has(args.rating) /\ (Val(args.rating) < 0 \/ Val(args.rating) > 100)
  \/ Has(args.accommodationType) /\ Val(args.accommodationType) \notin AccommodationTypes

ValidSearchDone == SearchDone /\ ~InvalidArguments(arguments)

IsResult == Has(response) /\ Val(response).kind = "result"
IsError == Has(response) /\ Val(response).kind = "error"
Accommodations == Val(response).structuredContent.accommodations
Content == Val(response).structuredContent

\* A requested facility is matched by a record: one of its labels contains
\* it, letter case ignored.
FacilityMatched(acc, facility) ==
  \E i \in 1..Len(acc.facilities) :
    Includes(ToLowerCase(acc.facilities[i]), ToLowerCase(facility))

\* The record satisfies every filter the arguments supply, all at once.
SuppliedFiltersPass(acc, args) ==
  /\ Has(args.accommodationType) => acc.type = Val(args.accommodationType)
  /\ Has(args.minPrice) => acc.pricePerNight >= Val(args.minPrice)
  /\ Has(args.maxPrice) => acc.pricePerNight <= Val(args.maxPrice)
  /\ Has(args.rating) => acc.rating >= Val(args.rating)
  /\ Has(args.facilities) =>
       \A i \in 1..Len(Val(args.facilities)) : FacilityMatched(acc, Val(args.facilities)[i])

MockIds == {"b1", "b2", "b3"}
UpstreamIds == {h.hotel_id : h \in UpstreamCatalogue}

\* The reshaped upstream records of this call, before filtering.
UpstreamCandidates ==
  [i \in 1..Len(hotelsData) |-> ReshapeHotel(hotelsData[i], arguments)]

\* The upstream was unavailable: no key, a failed or empty destination
\* lookup, a failed hotel search, or a throw anywhere on the way.
UpstreamUnavailable ==
  \/ ~key
  \/ destOutcome \in {"fetchThrows", "notOk", "jsonThrows", "empty"}
  \/ hotelsOutcome \in {"fetchThrows", "notOk", "jsonThrows"}

\* sub is full with some elements left out, order kept.
InOrderOf(sub, full) == sub = SelectSeq(full, LAMBDA x : x \in Range(sub))

\* C1 (as claimed): a valid search call whose upstream is unavailable still
\* returns a successful result, whose accommodations are exactly the mock
\* records that pass the request's filters, none of them from upstream.
C1_MockOnUpstreamFailure ==
  (ValidSearchDone /\ UpstreamUnavailable) =>
     /\ IsResult
     /\ Accommodations =
          SelectSeq(MockAccommodations(arguments),
                    LAMBDA acc : SuppliedFiltersPass(acc, arguments))
     /\ \A acc \in Range(Accommodations) : acc.id \notin UpstreamIds

\* C2 (as claimed): the accommodations of every search result are exactly the
\* candidate records (reshaped upstream records, or the mock records on the
\* mock path) that satisfy all supplied filters at once.
C2_FiltersConjunctiveAndCorrect ==
  (ValidSearchDone /\ IsResult) =>
     LET candidates == IF "using-mock" \in Range(log)
                       THEN MockAccommodations(arguments)
                       ELSE UpstreamCandidates
     IN Accommodations =
          SelectSeq(candidates, LAMBDA acc : SuppliedFiltersPass(acc, arguments))

\* C3: when both upstream requests succeeded and the list left after
\* reshaping and filtering is empty, the result's accommodations are taken
\* from the mock list, filtered by the same arguments, and are not the empty
\* upstream list as such.
C3_MockWhenUpstreamEmpty ==
  (ValidSearchDone /\ destOutcome = "found" /\ hotelsOutcome = "ok"
     /\ apiResult = Some(<<>>)) =>
     /\ IsResult
     /\ "using-mock" \in Range(log)
     /\ InOrderOf(Accommodations, MockAccommodations(arguments))
     /\ Accommodations = MockFilter(MockAccommodations(arguments), arguments)

C3_Witness ==
  /\ ValidSearchDone /\ destOutcome = "found" /\ hotelsOutcome = "ok"
  /\ hotelsData # <<>>
  /\ apiResult = Some(<<>>)
  /\ IsResult
  /\ Len(Accommodations) > 0

C5_NoFailureSurfaced == pc = "done" => IsResult

\* C5 (amended): a call of the search tool with valid arguments completes
\* with a successful result whatever the upstream does; a call naming another
\* tool or carrying invalid arguments is answered with an error.
C5_OnlyUpstreamFailureHidden ==
  pc = "done" =>
     IF toolName = ToolName /\ ~InvalidArguments(arguments) THEN IsResult ELSE IsError

C5_Witness ==
  /\ ValidSearchDone
  /\ hotelsOutcome = "fetchThrows"
  /\ IsResult

RequestsTo(endpoint) == {i \in 1..Len(outbound) : outbound[i].endpoint = endpoint}

\* C6: during one search call at most one destination lookup and at most one
\* hotel search are sent, the hotel search only after the lookup answered
\* with a destination, and nothing is sent after a failed request.
C6_NoRetry ==
  /\ Cardinality(RequestsTo("searchDestinations")) <= 1
  /\ Cardinality(RequestsTo("searchHotels")) <= 1
  /\ RequestsTo("searchHotels") # {} =>
       /\ destOutcome = "found"
       /\ RequestsTo("searchDestinations") = {1}
       /\ RequestsTo("searchHotels") = {2}
  /\ destOutcome \in {"fetchThrows", "notOk", "jsonThrows", "empty"} =>
       (pc = "done" /\ Len(outbound) = 1)
  /\ hotelsOutcome \in {"fetchThrows", "notOk", "jsonThrows"} =>
       (pc = "done" /\ Len(outbound) = 2)

C6_Witness ==
  /\ pc = "done"
  /\ hotelsOutcome = "notOk"
  /\ Len(outbound) = 2

\* C7: without the API key a search call sends no outbound request, returns
\* only mock records, sets usingMockData and appends the mock-data notice.
C7_NoKeyMeansMock ==
  ~key =>
     /\ outbound = <<>>
     /\ ValidSearchDone =>
          /\ IsResult
          /\ Range(Accommodations) \subseteq Range(MockAccommodations(arguments))
          /\ Content.usingMockData
          /\ Val(response).text.mockNotice

C7_Witness ==
  /\ ~key
  /\ ValidSearchDone
  /\ IsResult
  /\ Len(Accommodations) = 2

\* C8: a search call whose arguments break an input constraint is rejected
\* with an error, sends no upstream request and produces no result.
C8_ValidationFirst ==
  /\ outbound # <<>> => ~InvalidArguments(arguments)
  /\ (SearchDone /\ InvalidArguments(arguments)) =>
       /\ IsError
       /\ outbound = <<>>
       /\ apiResult = None
       /\ log = <<>>

C8_Witness ==
  /\ key
  /\ SearchDone
  /\ Has(arguments.destination)
  /\ arguments.rating = Some(110)
  /\ IsError

Supplied(o, default) == IF Has(o) THEN Val(o) ELSE default

\* C9: the result reports adults 2, children 0, rooms 1 and nights 3 for an
\* omitted argument and the supplied value otherwise, and the hotel search
\* is sent with the adults and rooms values the result reports.
C9_GuestDefaults ==
  (ValidSearchDone /\ IsResult) =>
     /\ Content.adults = Supplied(arguments.adults, 2)
     /\ Content.children = Supplied(arguments.children, 0)
     /\ Content.rooms = Supplied(arguments.rooms, 1)
     /\ Content.nights = Supplied(arguments.nights, 3)
     /\ \A i \in RequestsTo("searchHotels") :
          /\ outbound[i].adults = Content.adults
          /\ outbound[i].room_qty = Content.rooms

C9_Witness ==
  /\ ValidSearchDone /\ IsResult
  /\ RequestsTo("searchHotels") # {}
  /\ ~Has(arguments.adults)
  /\ arguments.rooms = Some(2)
  /\ arguments.children = Some(0)

\* C10: the sessions map holds exactly the ids of the SSE connections that
\* were opened and have neither closed nor failed to connect.
C10_SessionsAreLiveConnections ==
  \A id \in SessionIds :
    Has(sessions[id]) <=> (sse[id] \in {"connecting", "open"} /\ id \notin closed)

C10_Witness ==
  \E a, b, c \in SessionIds :
    /\ sse[a] = "open" /\ a \in closed /\ ~Has(sessions[a])
    /\ sse[b] = "failed" /\ ~Has(sessions[b])
    /\ sse[c] = "open" /\ Has(sessions[c])

\* ------------------------------------------------------------ POST routing
\* The latest POST was handed to a transport, and which one.
HandedTo(id) == post.transport = Some(id)

\* C11: a POST to /mcp/messages with sessionId = X is handed to the transport
\* registered under X by the GET /mcp that created the session, and to no
\* other session's transport, whatever connects, closes and POSTs happen on
\* other sessions: every record of the map holds the transport made for its
\* id, a POST that was handed on was handed to the transport of its own
\* sessionId, and a message reaches the Server of that session only.
C11_RoutedToOwnTransport ==
  /\ [](/\ \A id \in SessionIds :
             Has(sessions[id]) => Val(sessions[id]).transport = id
        /\ Has(post.transport) => post.transport = post.sessionId)
  /\ [][\A id \in SessionIds :
          inflight'[id] > inflight[id]
            => /\ post'.sessionId = Some(id)
               /\ post'.transport = Some(id)
               /\ Has(sessions[id])]_vars

C11_Witness ==
  /\ Has(sessions[1]) /\ Has(sessions[2])
  /\ post.sessionId = Some(2) /\ HandedTo(2)
  /\ inflight[2] > 0 /\ inflight[1] = 0

\* C12 as stated: at any time at most one request is in process for a given
\* SSE session.
C12_SingleOutstanding == \A id \in SessionIds : inflight[id] <= 1

\* C12 as amended: the server keeps no queue or lock per session; a POST that
\* the transport accepts is passed to the session's Server at once, also
\* while an earlier request of that session is still in process, and it adds
\* exactly one request in process, to that session.
C12_DispatchedAtOnce ==
  [][/\ (post' # post /\ post'.status = 202)
        => inflight'[Val(post'.transport)] = inflight[Val(post'.transport)] + 1
     /\ \A id \in SessionIds :
          inflight'[id] > inflight[id]
            => /\ inflight'[id] = inflight[id] + 1
               /\ post'.status = 202
               /\ post'.transport = Some(id)]_vars

C12_Witness ==
  \E id \in SessionIds : inflight[id] = 2 /\ post.status = 202 /\ HandedTo(id)

\* C20: a POST to /mcp/messages that cannot be routed is rejected without
\* side effects: without a sessionId it is answered 400, with a sessionId
\* that is not in the sessions map (never opened, or closed) it is answered
\* 404; no transport receives it and the sessions map stays as it was.
C20_UnroutableRejected ==
  [][post' # post
       => /\ ~Has(post'.sessionId)
               => /\ post'.status = 400
                  /\ ~Has(post'.transport)
                  /\ inflight' = inflight /\ sessions' = sessions
          /\ (Has(post'.sessionId) /\ ~Has(sessions[Val(post'.sessionId)]))
               => /\ post'.status = 404
                  /\ ~Has(post'.transport)
                  /\ inflight' = inflight /\ sessions' = sessions]_vars

C20_Witness ==
  /\ post.sessionId = Some(1) /\ post.status = 404 /\ 1 \in closed
  /\ Has(sessions[2]) /\ inflight[2] > 0

\* ------------------------------------------------------------------ helpers
\* The claim's matching rule: some label of the record contains the
\* requested facility, letter case set aside.
ContainsIgnoringCase(labels, facility) ==
  \E i \in 1..Len(labels) : Includes(ToLowerCase(labels[i]), ToLowerCase(facility))

\* C13: the facilities filter keeps a record exactly when, for the requested
\* facility, it has a label that contains it as a case-insensitive substring,
\* and the mock path decides this as the upstream path does, so that 'wifi'
\* or 'pool' matches a record labelled 'WiFi', 'free-wifi' or 'Swimming pool'.
C13_SameMatchingRule ==
  applied.op = "matchFacility"
    => /\ Val(answer).mock = Val(answer).api
       /\ Val(answer).mock = ContainsIgnoringCase(applied.labels, applied.facility)

\* C14: determineAccommodationType maps every upstream type string, in any
\* letter case, into the enumeration of ten lodging types.
C14_TypeInEnumeration ==
  applied.op = "determineAccommodationType" => Val(answer) \in AccommodationTypes

\* The threshold label of a rating, as the claim lists the thresholds.
ThresholdLabel(rating) ==
  CASE rating >= 95 -> "Exceptional"
    [] rating >= 90 -> "Superb"
    [] rating >= 85 -> "Wonderful"
    [] rating >= 80 -> "Very Good"
    [] rating >= 75 -> "Good"
    [] OTHER -> "Pleasant"

\* C15: the review-score label of every returned accommodation record equals
\* the threshold label of its rating, for upstream-derived records and for
\* mock records alike.
C15_LabelDerivedFromRating ==
  (pc = "done" /\ IsResult)
    => \A i \in 1..Len(Accommodations) :
         Accommodations[i].reviewScore = ThresholdLabel(Accommodations[i].rating)

\* C18: resources/read returns the widget markup only for a listed resource:
\* for a URI of the resources/list result, one content entry with that URI,
\* the mime type text/html+skybridge and the widget HTML; for every other
\* URI an 'Unknown resource' error and no content.
C18_ReadOnlyListed ==
  applied.op = "resources/read"
    => IF \E r \in Resources : r.uri = applied.uri
       THEN /\ Val(answer).kind = "result"
            /\ Len(Val(answer).contents) = 1
            /\ Val(answer).contents[1].uri = applied.uri
            /\ Val(answer).contents[1].mimeType = "text/html+skybridge"
            /\ \E i \in 1..Len(Widgets) :
                 /\ Widgets[i].templateUri = applied.uri
                 /\ Val(answer).contents[1].text = Widgets[i].html
       ELSE /\ Val(answer).kind = "error"
            /\ Val(answer).message = "Unknown resource"
            /\ Val(answer).contents = <<>>

C18_Witness ==
  /\ applied.op = "resources/read"
  /\ applied.uri = "ui://widget/booking-com-search-results.html"
  /\ Val(answer).kind = "result"

\* ----------------------------------------------------------------- worker
\* C16: a POST to /mcp/rpc of the worker with method tools/list,
\* resources/list, resources/templates/list, resources/read of the known URI
\* or tools/call of the known tool with valid arguments is answered 200 with
\* the corresponding result; any other method is answered 400 'Unknown
\* method', an unknown tool 400 and an unknown resource URI 404; every
\* request gets one response, and it carries the CORS headers.
C16_WorkerServesMethods ==
  applied.op = "fetch"
    => LET request == applied.request
           body == request.body
           reply == Val(answer)
           Answered(status, error, result) ==
             reply.status = status /\ reply.error = error /\ reply.result = result
       IN /\ Len(answer) = 1
          /\ reply.cors
          /\ (request.httpMethod = "POST" /\ request.pathname = "/mcp/rpc" /\ body.json)
               => /\ body.method = Some("tools/list") => Answered(200, "", "tools")
                  /\ body.method = Some("resources/list") => Answered(200, "", "resources")
                  /\ body.method = Some("resources/templates/list")
                       => Answered(200, "", "resourceTemplates")
                  /\ body.method = Some("resources/read")
                       => IF body.uri = Some("ui://widget/booking-com-search-results.html")
                          THEN Answered(200, "", "contents")
                          ELSE reply.status = 404
                  /\ body.method = Some("tools/call")
                       => IF body.name # Some("accomodations.search")
                          THEN reply.status = 400
                          ELSE (Has(body.arguments) /\ ~InvalidArguments(Val(body.arguments)))
                                 => Answered(200, "", "toolResult")
                  /\ body.method \notin {Some("tools/list"), Some("resources/list"),
                                         Some("resources/templates/list"),
                                         Some("resources/read"), Some("tools/call")}
                       => Answered(400, "Unknown method", "")

C16_Witness ==
  /\ applied.op = "fetch"
  /\ applied.request.httpMethod = "POST" /\ applied.request.pathname = "/mcp/rpc"
  /\ applied.request.body.json
  /\ applied.request.body.method = Some("tools/call")
  /\ applied.request.body.name = Some("accomodations.search")
  /\ Val(answer).status = 200 /\ Val(answer).result = "toolResult"

\* -------------------------------------------------------- direct JSON-RPC
\* C17: in the direct JSON-RPC mode (POST /mcp), resources/read of a known
\* URI and resources/list are answered with a JSON-RPC result, resources/read
\* of an unknown URI with error code -32602, every other method (tools/list
\* and tools/call among them) with error code -32601, and an unparseable body
\* with HTTP 400 and error code -32700; each request receives exactly one
\* response and the sessions map is unchanged.
C17_DirectJsonRpc ==
  /\ [](applied.op = "directJsonRpc"
         => LET body == applied.body
                reply == Val(answer)
            IN /\ Len(answer) = 1
               /\ ~body.json => (reply.http = 400 /\ reply.code = -32700)
               /\ (body.json /\ ~body.null)
                    => /\ body.method = Some("resources/read")
                            => IF body.uri = Some("ui://widget/booking-search-results.html")
                               THEN reply.code = 0 /\ reply.result = "contents"
                               ELSE reply.code = -32602 /\ reply.result = ""
                       /\ body.method = Some("resources/list")
                            => (reply.code = 0 /\ reply.result = "resources")
                       /\ body.method \notin {Some("resources/read"), Some("resources/list")}
                            => (reply.code = -32601 /\ reply.result = ""))
  /\ [][(applied' # applied \/ answer' # answer) => sessions' = sessions]_vars

C17_Witness ==
  /\ applied.op = "directJsonRpc"
  /\ applied.body.method = Some("tools/call")
  /\ Val(answer).code = -32601
  /\ \E a, b \in SessionIds : Has(sessions[a]) /\ b \in closed

\* ----------------------------------------------------------------- widget
\* C19: useWidgetProps returns the props the host supplied, or the caller's
\* default state when none are supplied, and the widget renders them: one
\* card per supplied accommodation in the supplied order, and 'No
\* accommodations found' when the supplied list is empty.
C19_WidgetRendersProps ==
  applied.op = "render"
    => LET supplied == IF Has(applied.host) THEN Val(applied.host)
                       ELSE [accommodations |-> <<>>, destination |-> "Search Results"]
       IN /\ Val(answer).props = supplied
          /\ Val(answer).rendered.cards = supplied.accommodations
          /\ (Val(answer).rendered.text = "No accommodations found")
               <=> (Len(supplied.accommodations) = 0)

\* ------------------------------------------------------- session clean-up
\* C21: when one session's transport closes, only that session's entry is
\* removed from the sessions map and only that session's Server is closed;
\* every other session's entry (its transport and its Server) is unchanged,
\* its requests in process go on, and a POST naming it is routed as before.
C21_CleanupPerSession ==
  [][\A id \in SessionIds :
       (id \in closed' /\ id \notin closed)
         => /\ ~Has(sessions'[id])
            /\ closed' = closed \cup {id}
            /\ inflight' = inflight
            /\ \A other \in SessionIds \ {id} :
                 /\ sessions'[other] = sessions[other]
                 /\ PostStatus(Some(other), sessions') = PostStatus(Some(other), sessions)
                 /\ Has(sessions[other])
                      => RouteTransport(sessions', other) = RouteTransport(sessions, other)]_vars

C21_Witness ==
  /\ 1 \in closed /\ ~Has(sessions[1])
  /\ 2 \notin closed /\ Has(sessions[2])
  /\ post.sessionId = Some(2) /\ post.status = 202 /\ HandedTo(2)

\* C25: a failed SSE start leaves no session behind: the session is in the
\* sessions map while server.connect is awaited (unless its transport closed
\* meanwhile); once server.connect has rejected the id is not in the map and
\* the GET was answered 500, or was answered before the failure; from then
\* on a POST naming that id is answered 404, whether or not the onclose
\* callback of the transport ran as well.
C25_FailedStartLeavesNothing ==
  /\ [](\A id \in SessionIds :
          /\ (sse[id] = "connecting" /\ id \notin closed) => Has(sessions[id])
          /\ sse[id] = "failed"
               => (~Has(sessions[id]) /\ sseStatus[id] \in {200, 500}))
  /\ [][\A id \in SessionIds :
          (sse[id] = "connecting" /\ sse'[id] = "failed" /\ sseStatus[id] = 0)
            => sseStatus'[id] \in {200, 500}]_vars
  /\ [][\A id \in SessionIds :
          (sse[id] = "failed" /\ post' # post /\ post'.sessionId = Some(id))
            => (post'.status = 404 /\ ~Has(post'.transport))]_vars

C25_Witness ==
  \E a, b \in SessionIds :
    /\ sse[a] = "failed" /\ sseStatus[a] = 500 /\ a \in closed
    /\ sse[b] = "failed" /\ b \notin closed
    /\ post.sessionId = Some(b) /\ post.status = 404

\* ------------------------------------------------------ worker tool call
Ids(accommodations) == [i \in 1..Len(accommodations) |-> accommodations[i].id]

\* C22: each record the worker's tool call returns satisfies every filter
\* echoed in structuredContent.filters, the facilities among them, and the
\* worker selects the same mock record ids as the Node server's mock path
\* does for the same arguments.
C22_WorkerFiltersAsNodeMock ==
  (applied.op = "handleToolCall" /\ Has(answer))
    => LET returned == Val(answer).accommodations
       IN /\ \A i \in 1..Len(returned) :
               SuppliedFiltersPass(returned[i], Val(answer).filters)
          /\ Ids(returned)
               = Ids(MockFilter(MockAccommodations(applied.arguments), applied.arguments))

\* ------------------------------------------------- mock flag, zero filters
\* C23: the usingMockData flag of a search result is true exactly when the
\* returned accommodations were taken from the static mock list (the handler
\* logged that it uses mock data), and false exactly when they came from the
\* upstream API.
C23_FlagTellsSource ==
  (ValidSearchDone /\ IsResult)
    => (Content.usingMockData <=> "using-mock" \in Range(log))

\* The arguments with every numeric filter that is 0 left out.
WithoutZeros(args) ==
  [args EXCEPT !.minPrice = IF @ = Some(0) THEN None ELSE @,
               !.maxPrice = IF @ = Some(0) THEN None ELSE @,
               !.rating = IF @ = Some(0) THEN None ELSE @]

RouterTable(request, reply) ==
  IF request.url # "valid"
  THEN /\ reply.status = 400
       /\ UNCHANGED sessionVars
  ELSE IF request.method = "OPTIONS" /\ request.pathname \in {"/mcp", "/mcp/messages"}
  THEN /\ reply.status = 204 /\ reply.cors
       /\ UNCHANGED sessionVars
  ELSE IF request.method = "GET" /\ request.pathname = "/mcp"
  THEN /\ reply.handler = "handleSseRequest"
       /\ \E id \in SessionIds :
            /\ ~Has(sessions[id]) /\ Has(sessions'[id]) /\ sse'[id] = "connecting"
            /\ \A other \in SessionIds \ {id} : sessions'[other] = sessions[other]
  ELSE IF request.method = "POST" /\ request.pathname = "/mcp/messages"
  THEN /\ reply.handler = "handlePostMessage"
       /\ post'.sessionId = request.sessionId
       /\ post'.status = IF PostStatus(request.sessionId, sessions) # 0
                         THEN PostStatus(request.sessionId, sessions)
                         ELSE post'.status
       /\ post'.status \in {400, 404, 202, 500}
       /\ sessions' = sessions
  ELSE /\ reply.status = 404
       /\ UNCHANGED sessionVars

\* C26: the HTTP router answers every request exactly once and by a fixed
\* table: 400 without a URL, 204 with the CORS headers for OPTIONS on /mcp or
\* /mcp/messages, a new SSE session for GET /mcp, the session router for
\* POST /mcp/messages, and 404 with the sessions map and every session
\* unchanged for every other method and path.
C26_RouterAnswersByTable ==
  [][\A request \in HttpRequests, outcome \in TransportOutcomes :
       HttpRequest(request, outcome)
         => /\ Has(answer')
            /\ RouterTable(request, Val(answer'))]_vars

\* The table alone, for the requests whose URL the listener can parse.
RouterTableWhenUrlParses ==
  [][\A request \in HttpRequests, outcome \in TransportOutcomes :
       (request.url # "invalid" /\ HttpRequest(request, outcome))
         => /\ Has(answer')
            /\ RouterTable(request, Val(answer'))]_vars

\* ----------------------------------------------------------- static assets
\* Whether a resolved path lies inside the assets directory: it is the
\* directory or a path below it.
InsideAssets(platform, p) ==
  \/ p = ASSETS_DIR(platform)
  \/ StartsWith(p, ASSETS_DIR(platform) \o Sep(platform))

\* C27: static asset serving is confined to the assets directory: a file is
\* streamed only if its resolved path lies inside ASSETS_DIR and is a regular
\* file; a path that resolves outside ASSETS_DIR, a sibling directory whose
\* name starts with the assets directory's name included, is answered 403
\* and never 200; a path inside that is missing or a directory is answered
\* 404.
C27_AssetsConfined ==
  applied.op = "staticAsset" =>
    LET resolved == ResolvedPath(applied.platform, applied.target)
        inside == InsideAssets(applied.platform, resolved)
        file == IsFile(applied.platform, applied.built, resolved)
        reply == Val(answer)
    IN /\ reply.status = 200 => (inside /\ file /\ reply.streamed = Some(resolved))
       /\ ~inside => reply.status = 403
       /\ (inside /\ ~file) => reply.status = 404

\* The same for the requests that resolve to the assets directory or below
\* it, or to a path whose beginning is not the directory's name at all.
AssetsConfinedButForSiblings ==
  (applied.op = "staticAsset"
     /\ LET resolved == ResolvedPath(applied.platform, applied.target)
        IN InsideAssets(applied.platform, resolved)
             \/ ~StartsWith(resolved, ASSETS_DIR(applied.platform)))
    => C27_AssetsConfined

\* On a POSIX platform no request target resolves outside the directory.
PosixStaysInside ==
  (applied.op = "staticAsset" /\ applied.platform = "posix")
    => /\ InsideAssets("posix", ResolvedPath("posix", applied.target))
       /\ Val(answer).status # 403

============================================================================
